---------------------------- MODULE Spec2Model ----------------------------
(* CodeInsight: the static analysis pipeline of app.py / main.py /        *)
(* code_analyzer.py as a state machine.                                    *)
(*                                                                         *)
(* A source file is its syntax tree in the order ast.NodeVisitor visits    *)
(* it: a sequence of tokens, "def" (a FunctionDef node), "call" (a Call    *)
(* node) and "end" (generic_visit of a FunctionDef returning).  A Python   *)
(* str is a sequence of atoms (a path component or a separator), so that   *)
(* os.path.join, os.path.relpath, str.split and str.join are computed.     *)
(* A file carries its text next to its tree (atoms: the blank, the line     *)
(* separator and pieces of statements), for the duplication pass.          *)
(* A dict is a function; the empty dict and the empty list are << >>.      *)
EXTENDS Integers, Sequences, FiniteSets, TLC

VARIABLES
    impl,             \* which analyze_directory runs: "app" (app.py) or "main" (main.py)
    rootKind,         \* what the path given to analyze_directory is on disk
    pc,               \* position of the analysis run
    walk,             \* os.walk: directories still to be yielded (a stack)
    files,            \* the file names of the directory being processed, not yet looped over
    curdir,           \* the directory being processed (its components below the root)
    opened,           \* the files analyze_file was called on, in order, with what they held
    complete_graph,   \* the local complete_graph of analyze_directory
    result,           \* what analyze_directory returned
    call_graph_data,  \* app.call_graph_data, the published graph
    fpc,              \* position of one analyze_file call followed step by step
    source,           \* the file that call analyses
    pos,              \* the node CallGraphAnalyzer visits next
    analyzer,         \* the CallGraphAnalyzer object
    analysis_results, \* what get_analysis_results returned
    file_result,      \* what analyze_file returned
    upc,              \* position of the thread inside update_call_graph_data
    new_data,         \* the data argument of the update_call_graph_data call in progress
    old_data,         \* what call_graph_data held when that call began
    rpc,              \* position of the request handler thread
    rarg,             \* the function name or the query of the request being handled
    riter,            \* the dict iterator of search_functions
    rresults,         \* the results dict of search_functions
    response,         \* the last response a handler returned
    lastread          \* what the last read of call_graph_data by a handler saw

dirVars == <<impl, rootKind, pc, walk, files, curdir, opened, complete_graph, result>>

fileVars == <<fpc, source, pos, analyzer, analysis_results, file_result>>

serveVars == <<upc, new_data, old_data, rpc, rarg, riter, rresults, response, lastread>>

vars == <<dirVars, call_graph_data, fileVars, serveVars>>

-----------------------------------------------------------------------------
(* Bounds *)

\* longest raw call list of a declaration in the enumerated project files
MaxCalls == 1

\* most nodes of a module whose declarations and calls are enumerated
MaxTokens == 6

\* most loop and comprehension nodes of a function whose loops are enumerated
MaxLoopTokens == 4

\* how far around the smell thresholds line spans and parameter counts go
SmellSlack == 2

\* most atoms of a source text whose lines are enumerated
MaxTextLen == 5

-----------------------------------------------------------------------------
(* Names *)

\* self.current_function = None
NoFunction == "<None>"

\* None as a docstring or a return type
NoneValue == "<None>"

\* analyze_directory has not returned
NoResult == [returned |-> FALSE, graph |-> << >>]

Returned(graph) == [returned |-> TRUE, graph |-> graph]

\* the identifiers the enumerated project files declare
FuncNames == {"helper", "main", "print"}

\* the identifiers the enumerated project files call
CallNames == {"helper", "print"}

\* {name for name, obj in vars(builtins).items() if callable(obj)}, as far as
\* the identifiers of the model go
built_in_names == {"print", "len"}

-----------------------------------------------------------------------------
(* Syntax trees *)

DefTok(n, l, e, k) ==
    [op |-> "def", name |-> n, kind |-> "", lineno |-> l, end_lineno |-> e, nargs |-> k]

\* kind: "name" (ast.Name), "attr" (ast.Attribute), "other" (anything else)
CallTok(kind, n) ==
    [op |-> "call", name |-> n, kind |-> kind, lineno |-> 0, end_lineno |-> 0, nargs |-> 0]

EndTok ==
    [op |-> "end", name |-> "", kind |-> "", lineno |-> 0, end_lineno |-> 0, nargs |-> 0]

\* a loop statement: op is "for" (ast.For) or "while" (ast.While)
LoopTok(op) ==
    [op |-> op, name |-> "", kind |-> "", lineno |-> 0, end_lineno |-> 0, nargs |-> 0]

\* the end of a loop's body
EndLoopTok ==
    [op |-> "endloop", name |-> "", kind |-> "", lineno |-> 0, end_lineno |-> 0, nargs |-> 0]

\* a list comprehension (ast.ListComp) with k generators
ListCompTok(k) ==
    [op |-> "listcomp", name |-> "", kind |-> "", lineno |-> 0, end_lineno |-> 0, nargs |-> k]

\* an async def (ast.AsyncFunctionDef): CallGraphAnalyzer has no visitor for
\* it, generic_visit walks its body
AsyncDefTok(n, l, e) ==
    [op |-> "asyncdef", name |-> n, kind |-> "", lineno |-> l, end_lineno |-> e, nargs |-> 0]

\* the end of an async def's body
EndAsyncTok ==
    [op |-> "endasync", name |-> "", kind |-> "", lineno |-> 0, end_lineno |-> 0, nargs |-> 0]

\* nodes with a body, and the ends of bodies
IsOpen(tok) == tok.op \in {"def", "asyncdef", "for", "while"}

IsClose(tok) == tok.op \in {"end", "endasync", "endloop"}

RECURSIVE ScanEnd(_, _, _)
ScanEnd(toks, j, depth) ==
    IF IsOpen(toks[j]) THEN ScanEnd(toks, j + 1, depth + 1)
    ELSE IF IsClose(toks[j])
         THEN IF depth = 1 THEN j ELSE ScanEnd(toks, j + 1, depth - 1)
         ELSE ScanEnd(toks, j + 1, depth)

\* the last token of the node that starts at token i
MatchEnd(toks, i) == ScanEnd(toks, i, 0)

\* number of nodes with a body that enclose token i
NodeDepth(toks, i) ==
    Cardinality({j \in 1..(i - 1) : IsOpen(toks[j])})
    - Cardinality({j \in 1..(i - 1) : IsClose(toks[j])})

\* number of FunctionDef and AsyncFunctionDef nodes that enclose token i
FunctionDepth(toks, i) ==
    Cardinality({j \in 1..(i - 1) : toks[j].op \in {"def", "asyncdef"}})
    - Cardinality({j \in 1..(i - 1) : toks[j].op \in {"end", "endasync"}})

\* number of FunctionDef nodes that enclose token i
Depth(toks, i) ==
    Cardinality({j \in 1..(i - 1) : toks[j].op = "def"})
    - Cardinality({j \in 1..(i - 1) : toks[j].op = "end"})

\* every "end" closes a "def" and every "def" is closed
WellNested(toks) ==
    /\ \A i \in 1..Len(toks) : toks[i].op = "end" => Depth(toks, i) >= 1
    /\ Depth(toks, Len(toks) + 1) = 0

\* ast.get_source_segment(source, node): the text of the declaration
GetSourceSegment(toks, i) == SubSeq(toks, i, MatchEnd(toks, i))

\* code.count('\n') of a declaration's text
CountNewlines(code) == code[1].end_lineno - code[1].lineno

-----------------------------------------------------------------------------
(* CallGraphAnalyzer *)

AnalyzerInit ==
    [current_function |-> NoFunction, prev |-> << >>,
     call_graph |-> << >>, function_code |-> << >>]

\* visit_FunctionDef up to generic_visit; prev holds the prev_function of
\* every visit_FunctionDef frame that is still on the Python stack
EnterFunctionDef(st, toks, i) ==
    LET n == toks[i].name IN
    [current_function |-> n,
     prev |-> <<st.current_function>> \o st.prev,
     call_graph |-> IF n \in DOMAIN st.call_graph
                    THEN st.call_graph
                    ELSE (n :> << >>) @@ st.call_graph,
     function_code |-> (n :> GetSourceSegment(toks, i)) @@ st.function_code]

\* visit_FunctionDef after generic_visit
LeaveFunctionDef(st) ==
    [st EXCEPT !.current_function = Head(st.prev), !.prev = Tail(st.prev)]

CallTargetName(tok) ==
    IF tok.kind \in {"name", "attr"} THEN tok.name ELSE "unknown"

visit_Call(st, tok) ==
    IF st.current_function # NoFunction
    THEN [st EXCEPT !.call_graph[st.current_function] = Append(@, CallTargetName(tok))]
    ELSE st

VisitStep(st, toks, i) ==
    CASE toks[i].op = "def"  -> EnterFunctionDef(st, toks, i)
      [] toks[i].op = "end"  -> LeaveFunctionDef(st)
      [] toks[i].op = "call" -> visit_Call(st, toks[i])
      [] OTHER               -> st    \* generic_visit

RECURSIVE VisitFrom(_, _, _)
VisitFrom(st, toks, i) ==
    IF i > Len(toks) THEN st ELSE VisitFrom(VisitStep(st, toks, i), toks, i + 1)

\* analyzer = CallGraphAnalyzer(source); analyzer.visit(tree)
Visit(toks) == VisitFrom(AnalyzerInit, toks, 1)

-----------------------------------------------------------------------------
(* Strings and paths *)

\* os.sep
Sep == "/"

RECURSIVE StrJoin(_, _)
\* sep.join(parts): parts is a list of strings, sep a string
StrJoin(sep, parts) ==
    IF parts = << >> THEN << >>
    ELSE IF Len(parts) = 1 THEN parts[1]
    ELSE parts[1] \o sep \o StrJoin(sep, Tail(parts))

RECURSIVE SplitFrom(_, _, _, _)
SplitFrom(str, sepAtom, i, piece) ==
    IF i > Len(str) THEN <<piece>>
    ELSE IF str[i] = sepAtom
         THEN <<piece>> \o SplitFrom(str, sepAtom, i + 1, << >>)
         ELSE SplitFrom(str, sepAtom, i + 1, Append(piece, str[i]))

\* str.split(sep) for a one-atom separator
StrSplit(str, sepAtom) == SplitFrom(str, sepAtom, 1, << >>)

\* os.path.join(a, b) for a relative b and an a that does not end in os.sep
OsPathJoin(a, b) == a \o <<Sep>> \o b

RECURSIVE CommonPrefixLen(_, _)
CommonPrefixLen(a, b) ==
    IF a = << >> \/ b = << >> \/ Head(a) # Head(b) THEN 0
    ELSE 1 + CommonPrefixLen(Tail(a), Tail(b))

\* os.path.relpath(path, start), both taken from the same working directory
OsPathRelpath(path, start) ==
    LET start_list == SelectSeq(StrSplit(start, Sep), LAMBDA x : x # << >>)
        path_list == SelectSeq(StrSplit(path, Sep), LAMBDA x : x # << >>)
        i == CommonPrefixLen(start_list, path_list)
        rel_list == [k \in 1..(Len(start_list) - i) |-> <<"..">>]
                    \o SubSeq(path_list, i + 1, Len(path_list))
    IN IF rel_list = << >> THEN <<".">> ELSE StrJoin(<<Sep>>, rel_list)

\* the elements of a list
Range(seq) == {seq[k] : k \in 1..Len(seq)}

\* the atoms str.strip() removes from the two ends of a string
Whitespace == {" ", "\t"}

RECURSIVE LStrip(_)
LStrip(str) ==
    IF str # << >> /\ Head(str) \in Whitespace THEN LStrip(Tail(str)) ELSE str

RECURSIVE RStrip(_)
RStrip(str) ==
    IF str # << >> /\ str[Len(str)] \in Whitespace
    THEN RStrip(SubSeq(str, 1, Len(str) - 1))
    ELSE str

\* str.strip()
Strip(str) == RStrip(LStrip(str))

\* the separator written without its blanks
BreadcrumbsNoBlanks(relative_path) == StrJoin(<<">">>, StrSplit(relative_path, Sep))

\* " > ".join(relative_path.split(os.sep))
Breadcrumbs(relative_path) == StrJoin(<<" > ">>, StrSplit(relative_path, Sep))

-----------------------------------------------------------------------------
(* EnhancedCodeAnalyzer *)

DefIndices(toks, n) == {i \in 1..Len(toks) : toks[i].op = "def" /\ toks[i].name = n}

DeclaredNames(toks) == {toks[i].name : i \in {j \in 1..Len(toks) : toks[j].op = "def"}}

Max(S) == CHOOSE x \in S : \A y \in S : y <= x

\* radon's visitor.functions are the module-level functions, def and async
\* def alike, in source order; a later one of the same name overwrites the
\* entry.  The
\* cyclomatic number radon computes is a function of the declaration's text
\* and is not part of the record here.
calculate_complexity_metrics(toks) ==
    LET functions == {i \in 1..Len(toks) : /\ toks[i].op \in {"def", "asyncdef"}
                                            /\ FunctionDepth(toks, i) = 0}
        top(n) == {i \in functions : toks[i].name = n}
    IN
    [n \in {toks[i].name : i \in functions} |->
        LET i == Max(top(n)) IN
        [loc |-> toks[i].end_lineno - toks[i].lineno + 1]]

\* the thresholds of SmellChecker
LongMethodLines == 20

TooManyParameters == 5

\* SmellChecker.visit_functiondef for one function node
visit_functiondef(node) ==
    (IF node.lineno # 0 /\ node.end_lineno # 0
        /\ node.end_lineno - node.lineno > LongMethodLines
     THEN <<[type |-> "long_method", name |-> node.name, line |-> node.lineno]>>
     ELSE << >>)
    \o
    (IF node.nargs > TooManyParameters
     THEN <<[type |-> "too_many_parameters", name |-> node.name, line |-> node.lineno]>>
     ELSE << >>)

\* Run([self.file_path], do_exit=False) builds its own linter with pylint's
\* checkers; SmellChecker is defined and never registered with it
SmellCheckerRegistered == FALSE

RECURSIVE SmellsFrom(_, _)
SmellsFrom(toks, i) ==
    IF i > Len(toks) THEN << >>
    ELSE (IF toks[i].op = "def" THEN visit_functiondef(toks[i]) ELSE << >>)
         \o SmellsFrom(toks, i + 1)

detect_code_smells(toks) ==
    IF SmellCheckerRegistered THEN SmellsFrom(toks, 1) ELSE << >>

\* bandit's findings for the file: an input of the analysis
scan_security_vulnerabilities(content) == content.issues

\* ast.walk is breadth-first: of the declarations of one name the entry that
\* stays is the deepest one, and among those the last in the source.  The
\* modelled declarations have no docstring and no return annotation;
\* parameters is the number of parameter names.
generate_documentation(toks) ==
    [n \in DeclaredNames(toks) |->
        LET d == Max({NodeDepth(toks, i) : i \in DefIndices(toks, n)})
            i == Max({j \in DefIndices(toks, n) : NodeDepth(toks, j) = d})
        IN [docstring |-> NoneValue, parameters |-> toks[i].nargs,
            return_type |-> NoneValue, line |-> toks[i].lineno]]

\* the line separator of str.split('\n')
Newline == "\n"

\* the inner loop of find_code_duplication for one i: j runs over
\* range(i + 1, len(lines)); the indices here are 1-based, as line1 and
\* line2 are
DuplicationsOf(lines, i) ==
    LET later == [k \in 1..(Len(lines) - i) |-> i + k]
        hits == SelectSeq(later, LAMBDA j : /\ lines[i] = lines[j]
                                            /\ Len(Strip(lines[i])) > 0)
    IN [k \in 1..Len(hits) |-> [line1 |-> i, line2 |-> hits[k], code |-> lines[i]]]

RECURSIVE DuplicationsFrom(_, _)
\* the outer loop, from line i on
DuplicationsFrom(lines, i) ==
    IF i > Len(lines) THEN << >>
    ELSE DuplicationsOf(lines, i) \o DuplicationsFrom(lines, i + 1)

find_code_duplication(source_code) ==
    DuplicationsFrom(StrSplit(source_code, Newline), 1)

-----------------------------------------------------------------------------
(* analyze_performance *)

RECURSIVE BreadthFirst(_, _)
\* the nodes S in the order ast.walk yields them: by depth, then by place
BreadthFirst(toks, S) ==
    IF S = {} THEN << >>
    ELSE LET first == CHOOSE i \in S : \A j \in S :
                         \/ NodeDepth(toks, i) < NodeDepth(toks, j)
                         \/ NodeDepth(toks, i) = NodeDepth(toks, j) /\ i <= j
         IN <<first>> \o BreadthFirst(toks, S \ {first})

\* the nodes ast.walk(node) yields for the node at token i: the node itself
\* and everything below it
WalkNodes(toks, i) ==
    IF IsOpen(toks[i]) THEN {j \in i..MatchEnd(toks, i) : ~IsClose(toks[j])} ELSE {i}

RECURSIVE NestedLoopIssues(_, _)
\* the outer loop of analyze_performance over the ast.For nodes in order
NestedLoopIssues(toks, outer) ==
    IF outer = << >> THEN << >>
    ELSE LET node == Head(outer)
             children == {j \in WalkNodes(toks, node) : toks[j].op = "for"}
         IN [k \in 1..Cardinality(children) |->
                [type |-> "nested_loop", line |-> toks[node].lineno]]
            \o NestedLoopIssues(toks, Tail(outer))

analyze_performance(toks) ==
    LET fors == BreadthFirst(toks, {i \in 1..Len(toks) : toks[i].op = "for"})
        comps == BreadthFirst(toks, {i \in 1..Len(toks) :
                                        toks[i].op = "listcomp" /\ toks[i].nargs > 1})
    IN NestedLoopIssues(toks, fors)
       \o [k \in 1..Len(comps) |->
              [type |-> "complex_list_comp", line |-> toks[comps[k]].lineno]]

-----------------------------------------------------------------------------
(* analyze_file for a file that is read and parsed *)

get_analysis_results(content) ==
    [complexity_metrics |-> calculate_complexity_metrics(content.tokens),
     code_smells |-> detect_code_smells(content.tokens),
     security_vulnerabilities |-> scan_security_vulnerabilities(content),
     code_duplication |-> find_code_duplication(content.text),
     performance_analysis |-> analyze_performance(content.tokens),
     documentation |-> generate_documentation(content.tokens)]

\* the loop of analyze_file that builds result
BuildResult(a, results) ==
    [func \in DOMAIN a.call_graph |->
        [code |-> a.function_code[func],
         calls |-> a.call_graph[func],
         complexity |-> IF func \in DOMAIN results.complexity_metrics
                        THEN results.complexity_metrics[func] ELSE << >>,
         code_smells |-> SelectSeq(results.code_smells, LAMBDA smell : smell.name = func),
         security_issues |->
             SelectSeq(results.security_vulnerabilities,
                       LAMBDA issue : issue.line >= CountNewlines(a.function_code[func])),
         documentation |-> IF func \in DOMAIN results.documentation
                           THEN results.documentation[func] ELSE << >>]]

analyze_file(content) == BuildResult(Visit(content.tokens), get_analysis_results(content))

-----------------------------------------------------------------------------
(* The analysed tree *)

\* the directory argument of analyze_directory
directory == <<"proj">>

\* what os.scandir finds in the directory with these components below the
\* root: the project under analysis
ListDir(segs) ==
    CASE segs = << >>        -> [dirs |-> {"a", "venv"}, files |-> {"README.md"}]
      [] segs = <<"a">>      -> [dirs |-> {"b"}, files |-> {}]
      [] segs = <<"a", "b">> -> [dirs |-> {"node_modules"}, files |-> {"c.py", "d.py"}]
      [] segs = <<"a", "b", "node_modules">> -> [dirs |-> {}, files |-> {"index.js"}]
      [] segs = <<"venv">>   -> [dirs |-> {}, files |-> {"e.py"}]
      [] OTHER               -> [dirs |-> {}, files |-> {}]

\* file.endswith(".py")
EndsWithPy(file) == file \in {"c.py", "d.py", "e.py"}

\* 'env' in d.lower()
ContainsEnv(d) == d \in {"venv"}

\* the orders in which os.scandir may list a set of names
Orders(S) ==
    {s \in [1..Cardinality(S) -> S] : \A i, j \in 1..Cardinality(S) : s[i] = s[j] => i = j}

\* the root string os.walk yields for a directory
WalkRoot(segs) ==
    IF segs = << >> THEN directory
    ELSE OsPathJoin(directory, StrJoin(<<Sep>>, [i \in 1..Len(segs) |-> <<segs[i]>>]))

\* main.py: dirs.remove('node_modules'); dirs[:] = [d ... if 'env' not in d.lower()]
\* app.py walks every directory
PruneDirs(variant, dirs) ==
    IF variant = "main"
    THEN SelectSeq(SelectSeq(dirs, LAMBDA d : d # "node_modules"),
                   LAMBDA d : ~ContainsEnv(d))
    ELSE dirs

-----------------------------------------------------------------------------
(* The text a syntax tree is parsed from *)

\* the node tok on line l
At(tok, l) == [tok EXCEPT !.lineno = l, !.end_lineno = l]

\* a statement that holds the node, as it is spelled
Written(tok) ==
    CASE tok.op = "def" ->
             <<"def ", tok.name, "(">>
             \o [k \in 1..(2 * tok.nargs) |->
                    IF k = 1 THEN "p"
                    ELSE IF k % 2 = 1 THEN ", p" ELSE ToString(k \div 2)]
             \o (IF tok.end_lineno = tok.lineno THEN <<"): pass">> ELSE <<"):">>)
      [] tok.op = "asyncdef" -> <<"async def ", tok.name, "(", "):">>
      [] tok.op = "call" ->
             (CASE tok.kind = "name" -> <<tok.name, "()">>
                [] tok.kind = "attr" -> <<"o.", tok.name, "()">>
                [] OTHER             -> <<"x[0]()">>)
      [] tok.op = "for" -> <<"for x in s:">>
      [] tok.op = "while" -> <<"while c:">>
      [] tok.op = "listcomp" ->
             <<"[e">> \o [k \in 1..tok.nargs |-> " for x in s"] \o <<"]">>
      [] OTHER -> << >>

\* the last line of the module
LastLine(toks) ==
    Max({0} \cup {toks[i].lineno : i \in 1..Len(toks)}
            \cup {toks[i].end_lineno : i \in 1..Len(toks)})

\* the nodes that start on line l
NodesOn(toks, l) == {i \in 1..Len(toks) : ~IsClose(toks[i]) /\ toks[i].lineno = l}

\* the bodies line l is part of
BodiesAround(toks, l) ==
    {i \in 1..Len(toks) : IsOpen(toks[i]) /\ toks[i].lineno < l /\ l <= toks[i].end_lineno}

RECURSIVE WrittenNodes(_, _)
\* the statements of one line, separated by semicolons
WrittenNodes(toks, S) ==
    IF S = {} THEN << >>
    ELSE LET i == CHOOSE k \in S : \A j \in S : k <= j
         IN Written(toks[i])
            \o (IF S = {i} THEN << >> ELSE <<"; ">> \o WrittenNodes(toks, S \ {i}))

\* line l of the text: its nodes behind one blank of indentation per
\* enclosing body; a line of a body that starts no node is a pass; a line
\* outside every body that starts no node is empty
LineOf(toks, l) ==
    [k \in 1..Cardinality(BodiesAround(toks, l)) |-> " "]
    \o (IF NodesOn(toks, l) # {} THEN WrittenNodes(toks, NodesOn(toks, l))
        ELSE IF BodiesAround(toks, l) # {} THEN <<"pass">>
        ELSE << >>)

\* a text that ast.parse turns into the tree toks
SourceText(toks) ==
    StrJoin(<<Newline>>, [l \in 1..LastLine(toks) |-> LineOf(toks, l)])

\* a file that is read and parsed: its text, its tree and bandit's findings
FileOf(toks, issues) ==
    [status |-> "ok", tokens |-> toks, text |-> SourceText(toks), issues |-> issues]

\* a file that is not analysed: open or ast.parse raises, or a provider does
FailingFile(status) ==
    [status |-> status, tokens |-> << >>, text |-> << >>, issues |-> << >>]

-----------------------------------------------------------------------------
(* What a project file may hold *)

CallLists == UNION {[1..k -> CallNames] : k \in 0..MaxCalls}

\* a module of one declaration, def n(): c1(); c2(); ...
OneDecl(n, calls) ==
    <<DefTok(n, 1, 1 + Len(calls), 0)>>
    \o [i \in 1..Len(calls) |-> At(CallTok("name", calls[i]), 1 + i)]
    \o <<EndTok>>

\* modules with a redeclared name, a nested declaration and calls that are
\* not plain names
ExtraSources ==
    { <<DefTok("helper", 1, 2, 0), At(CallTok("name", "main"), 2), EndTok,
        DefTok("helper", 4, 5, 1), At(CallTok("attr", "print"), 5), EndTok>>,
      <<At(CallTok("name", "main"), 1),
        DefTok("main", 2, 5, 0), DefTok("helper", 3, 4, 2),
        At(CallTok("name", "helper"), 4), EndTok,
        At(CallTok("other", ""), 5), At(CallTok("name", "helper"), 5), EndTok>> }

ProjectSources ==
    {<< >>} \cup {OneDecl(n, calls) : n \in FuncNames, calls \in CallLists} \cup ExtraSources

\* bandit's finding for a module: one on line 1 of the modules that redeclare
\* or nest, none in the others
IssuesOf(t) == IF t \in ExtraSources THEN <<[type |-> "B102", line |-> 1]>> ELSE << >>

ProjectContents ==
    {FileOf(t, IssuesOf(t)) : t \in ProjectSources}
    \cup {FailingFile(s) : s \in {"unreadable", "syntax_error", "provider_error"}}

-----------------------------------------------------------------------------
(* analyze_directory *)

\* a filtering pass that keeps every defined name, built-in or not
FilterGraphKeepBuiltins(graph) ==
    LET defined_functions == DOMAIN graph IN
    [func \in DOMAIN graph |->
        [graph[func] EXCEPT !.calls =
            SelectSeq(@, LAMBDA call : call \in defined_functions)]]

\* the filtering pass over the merged graph
FilterGraph(graph) ==
    LET defined_functions == DOMAIN graph IN
    [func \in DOMAIN graph |->
        [graph[func] EXCEPT !.calls =
            SelectSeq(@, LAMBDA call : call \in defined_functions
                                       /\ call \notin built_in_names)]]

\* a merge that keeps the record a name already has
MergeFileKeepFirst(variant, graph, file_graph, relative_path) ==
    LET attach(func) == [file |-> relative_path, breadcrumbs |-> Breadcrumbs(relative_path)]
                        @@ file_graph[func]
    IN graph @@ [func \in DOMAIN file_graph |-> attach(func)]

\* a merge that filters the calls of a file as soon as the file is merged
MergeFileFilterEarly(variant, graph, file_graph, relative_path) ==
    LET attach(func) == [file |-> relative_path, breadcrumbs |-> Breadcrumbs(relative_path)]
                        @@ file_graph[func]
        merged == [func \in DOMAIN file_graph |-> attach(func)] @@ graph
    IN [func \in DOMAIN merged |->
          IF func \in DOMAIN file_graph
          THEN [merged[func] EXCEPT !.calls =
                   SelectSeq(@, LAMBDA call : call \in DOMAIN merged
                                              /\ call \notin built_in_names)]
          ELSE merged[func]]

\* the loop body of analyze_directory for one analysed file: attach file and
\* breadcrumbs, merge into complete_graph
MergeFile(variant, graph, file_graph, relative_path) ==
    LET breadcrumbs == Breadcrumbs(relative_path)
        attach(func) == [file |-> relative_path, breadcrumbs |-> breadcrumbs]
                        @@ file_graph[func]
        kept == IF variant = "main"
                THEN {func \in DOMAIN file_graph : file_graph[func].code # << >>}
                ELSE DOMAIN file_graph
    IN [func \in kept |-> attach(func)] @@ graph

\* no request is handled and no update_call_graph_data call is in progress
ServeIdle ==
    /\ upc = "idle"
    /\ new_data = << >>
    /\ old_data = << >>
    /\ rpc = "idle"
    /\ rarg = ""
    /\ riter = [used |-> 0, idx |-> 0]
    /\ rresults = << >>
    /\ response = [route |-> "", status |-> 0, body |-> << >>]
    /\ lastread = [seen |-> << >>, old |-> << >>, new |-> << >>]

\* no analyze_file call is followed step by step
FileIdle ==
    /\ fpc = "idle"
    /\ source = FileOf(<< >>, << >>)
    /\ pos = 1
    /\ analyzer = AnalyzerInit
    /\ analysis_results = << >>
    /\ file_result = NoResult

Init ==
    /\ impl \in {"app", "main"}
    /\ rootKind \in {"dir", "missing", "file"}
    /\ pc = "Idle"
    /\ walk = << >>
    /\ files = << >>
    /\ curdir = << >>
    /\ opened = << >>
    /\ complete_graph = << >>
    /\ result = NoResult
    /\ call_graph_data = << >>
    /\ FileIdle
    /\ ServeIdle

\* complete_graph = {}; os.walk(directory) starts.  os.walk is called
\* without onerror: the error of listing a root that is missing or is not
\* a directory is swallowed and the walk yields nothing.
StartWalk ==
    /\ pc = "Idle"
    /\ pc' = "Walking"
    /\ walk' = IF rootKind = "dir" THEN << << >> >> ELSE << >>
    /\ UNCHANGED <<impl, rootKind, files, curdir, opened, complete_graph, result,
                   call_graph_data>>
    /\ UNCHANGED <<fileVars, serveVars>>

\* os.walk yields the next (root, dirs, files), top-down
WalkDir ==
    /\ pc = "Walking"
    /\ files = << >>
    /\ walk # << >>
    /\ LET top == Head(walk) IN
       \E dirs \in Orders(ListDir(top).dirs), names \in Orders(ListDir(top).files) :
          LET into == PruneDirs(impl, dirs) IN
          /\ walk' = [i \in 1..Len(into) |-> Append(top, into[i])] \o Tail(walk)
          /\ files' = names
          /\ curdir' = top
    /\ UNCHANGED <<impl, rootKind, pc, opened, complete_graph, result, call_graph_data>>
    /\ UNCHANGED <<fileVars, serveVars>>

\* one iteration of "for file in files"
VisitFile ==
    /\ pc = "Walking"
    /\ files # << >>
    /\ LET file == Head(files) IN
       IF ~EndsWithPy(file)
       THEN /\ files' = Tail(files)
            /\ UNCHANGED <<pc, opened, complete_graph>>
       ELSE \E content \in ProjectContents :
              LET filepath == OsPathJoin(WalkRoot(curdir), <<file>>)
                  relative_path == OsPathRelpath(filepath, directory)
              IN /\ opened' = Append(opened, [segs |-> Append(curdir, file),
                                              content |-> content])
                 /\ IF content.status = "ok"
                    THEN /\ complete_graph' =
                               MergeFile(impl, complete_graph, analyze_file(content),
                                         relative_path)
                         /\ files' = Tail(files)
                         /\ pc' = pc
                    ELSE \* open, ast.parse or a provider raises; nothing catches it
                         /\ pc' = "Raised"
                         /\ UNCHANGED <<files, complete_graph>>
    /\ UNCHANGED <<impl, rootKind, walk, curdir, result, call_graph_data>>
    /\ UNCHANGED <<fileVars, serveVars>>

\* the walk is exhausted
FinishWalk ==
    /\ pc = "Walking"
    /\ files = << >>
    /\ walk = << >>
    /\ pc' = "Filtering"
    /\ UNCHANGED <<impl, rootKind, walk, files, curdir, opened, complete_graph, result,
                   call_graph_data>>
    /\ UNCHANGED <<fileVars, serveVars>>

\* the filtering pass and the return
FilterCalls ==
    /\ pc = "Filtering"
    /\ complete_graph' = FilterGraph(complete_graph)
    /\ result' = Returned(complete_graph')
    /\ pc' = "Done"
    /\ UNCHANGED <<impl, rootKind, walk, files, curdir, opened, call_graph_data>>
    /\ UNCHANGED <<fileVars, serveVars>>

\* dict.clear()
DictClear(d) == << >>

\* dict.update(data)
DictUpdate(d, data) == data @@ d

\* update_call_graph_data(project_data) of main.py, statement by statement
UpdateClear ==
    /\ pc = "Done"
    /\ impl = "main"
    /\ call_graph_data' = DictClear(call_graph_data)
    /\ pc' = "Updating"
    /\ UNCHANGED <<impl, rootKind, walk, files, curdir, opened, complete_graph, result>>
    /\ UNCHANGED <<fileVars, serveVars>>

UpdateFill ==
    /\ pc = "Updating"
    /\ call_graph_data' = DictUpdate(call_graph_data, result.graph)
    /\ pc' = "Published"
    /\ UNCHANGED <<impl, rootKind, walk, files, curdir, opened, complete_graph, result>>
    /\ UNCHANGED <<fileVars, serveVars>>

Next ==
    \/ StartWalk
    \/ WalkDir
    \/ VisitFile
    \/ FinishWalk
    \/ FilterCalls
    \/ UpdateClear
    \/ UpdateFill

Spec == Init /\ [][Next]_vars

-----------------------------------------------------------------------------
(* One analyze_file call, step by step *)

\* line numbers for an enumerated module: one node per line
Located(toks) ==
    [i \in 1..Len(toks) |->
        [toks[i] EXCEPT !.lineno = i,
                        !.end_lineno = IF IsOpen(toks[i]) THEN MatchEnd(toks, i) ELSE i]]

NestAlphabet ==
    {DefTok("f", 0, 0, 0), DefTok("g", 0, 0, 0),
     CallTok("name", "a"), CallTok("attr", "b"), EndTok}

\* every module of at most MaxTokens declarations, calls and ends
NestedSources ==
    {Located(t) : t \in UNION {{u \in [1..k -> NestAlphabet] : WellNested(u)} :
                                  k \in 0..MaxTokens}}

\* one function starting on line l, n lines long, with k parameters
SmellSources ==
    {<<DefTok("f", l, l + n - 1, k), At(CallTok("name", "a"), l + 1), EndTok>> :
        l \in 1..2,
        n \in (LongMethodLines - SmellSlack + 1)..(LongMethodLines + SmellSlack + 1),
        k \in (TooManyParameters - SmellSlack)..(TooManyParameters + SmellSlack)}

LoopAlphabet ==
    {LoopTok("for"), LoopTok("while"), EndLoopTok, ListCompTok(1), ListCompTok(2)}

LoopsWellNested(toks) ==
    /\ \A i \in 1..Len(toks) : IsClose(toks[i]) => NodeDepth(toks, i) >= 1
    /\ NodeDepth(toks, Len(toks) + 1) = 0

\* one function whose body is at most MaxLoopTokens loops and comprehensions
LoopSources ==
    {Located(<<DefTok("f", 0, 0, 0)>> \o t \o <<EndTok>>) :
        t \in UNION {{u \in [1..k -> LoopAlphabet] : LoopsWellNested(u)} :
                        k \in 0..MaxLoopTokens}}

\* the statements of the enumerated texts: assignments, which hold no
\* declaration, call or loop
Statements == {"x = 1", "y = 2"}

TextAlphabet == Statements \cup {" ", Newline}

\* ast.parse accepts the text: a line is empty or blank, or one statement
\* that starts in the first column, blanks allowed behind it
ParsesAsStatements(text) ==
    \A line \in Range(StrSplit(text, Newline)) :
        \/ Strip(line) = << >>
        \/ /\ Head(line) \in Statements
           /\ Strip(Tail(line)) = << >>

\* every module of at most MaxTextLen atoms that is assignments only
StatementTexts ==
    {t \in UNION {[1..k -> TextAlphabet] : k \in 0..MaxTextLen} : ParsesAsStatements(t)}

\* modules with an async def: inside a function, and at module level
AsyncSources ==
    { <<DefTok("f", 1, 5, 0), At(CallTok("name", "a"), 2),
        AsyncDefTok("g", 3, 4), At(CallTok("name", "b"), 4), EndAsyncTok,
        At(CallTok("name", "c"), 5), EndTok>>,
      <<AsyncDefTok("h", 1, 2), At(CallTok("name", "a"), 2), EndAsyncTok>> }

\* a function whose body is one conditional expression over three lines,
\*     def f():
\*      x = (a()
\*       if b()
\*       else c())
\* ast.IfExp lists its fields as test, body, orelse: the visitor reaches
\* b() before a()
ConditionalFile ==
    [status |-> "ok",
     tokens |-> <<DefTok("f", 1, 4, 0), At(CallTok("name", "b"), 3),
                  At(CallTok("name", "a"), 2), At(CallTok("name", "c"), 4), EndTok>>,
     text |-> <<"def ", "f", "(", "):", Newline,
                " ", "x = (", "a", "()", Newline,
                " ", " ", "if ", "b", "()", Newline,
                " ", " ", "else ", "c", "()", ")">>,
     issues |-> << >>]

\* a decorated function,
\*     @dec()
\*     def f():
\*      a()
\* ast.FunctionDef lists decorator_list behind body, and its lineno is the
\* line of the def
DecoratedFile ==
    [status |-> "ok",
     tokens |-> <<DefTok("f", 2, 3, 0), At(CallTok("name", "a"), 3),
                  At(CallTok("name", "dec"), 1), EndTok>>,
     text |-> <<"@", "dec", "()", Newline,
                "def ", "f", "(", "):", Newline,
                " ", "a", "()">>,
     issues |-> << >>]

FileContents ==
    {FileOf(t, << >>) :
        t \in NestedSources \cup SmellSources \cup LoopSources \cup AsyncSources}
    \cup {ConditionalFile, DecoratedFile}
    \cup {[status |-> "ok", tokens |-> << >>, text |-> t, issues |-> << >>] :
             t \in StatementTexts}
    \cup {FailingFile(st) : st \in {"unreadable", "syntax_error", "provider_error"}}

\* no analyze_directory run
DirIdle ==
    /\ impl = "app"
    /\ rootKind = "dir"
    /\ pc = "Idle"
    /\ walk = << >>
    /\ files = << >>
    /\ curdir = << >>
    /\ opened = << >>
    /\ complete_graph = << >>
    /\ result = NoResult

FileInit ==
    /\ DirIdle
    /\ ServeIdle
    /\ call_graph_data = << >>
    /\ fpc = "start"
    /\ source \in FileContents
    /\ pos = 1
    /\ analyzer = AnalyzerInit
    /\ analysis_results = << >>
    /\ file_result = NoResult

\* open, file.read, ast.parse, CallGraphAnalyzer(source)
ReadAndParse ==
    /\ fpc = "start"
    /\ fpc' = IF source.status \in {"unreadable", "syntax_error"} THEN "raised" ELSE "visiting"
    /\ UNCHANGED <<source, pos, analyzer, analysis_results, file_result>>
    /\ UNCHANGED <<dirVars, call_graph_data, serveVars>>

\* visit_FunctionDef up to its generic_visit
VisitFunctionDefEnter ==
    /\ fpc = "visiting"
    /\ pos <= Len(source.tokens)
    /\ source.tokens[pos].op = "def"
    /\ analyzer' = EnterFunctionDef(analyzer, source.tokens, pos)
    /\ pos' = pos + 1
    /\ UNCHANGED <<fpc, source, analysis_results, file_result>>
    /\ UNCHANGED <<dirVars, call_graph_data, serveVars>>

\* visit_FunctionDef after its generic_visit
VisitFunctionDefLeave ==
    /\ fpc = "visiting"
    /\ pos <= Len(source.tokens)
    /\ source.tokens[pos].op = "end"
    /\ analyzer' = LeaveFunctionDef(analyzer)
    /\ pos' = pos + 1
    /\ UNCHANGED <<fpc, source, analysis_results, file_result>>
    /\ UNCHANGED <<dirVars, call_graph_data, serveVars>>

VisitCallNode ==
    /\ fpc = "visiting"
    /\ pos <= Len(source.tokens)
    /\ source.tokens[pos].op = "call"
    /\ analyzer' = visit_Call(analyzer, source.tokens[pos])
    /\ pos' = pos + 1
    /\ UNCHANGED <<fpc, source, analysis_results, file_result>>
    /\ UNCHANGED <<dirVars, call_graph_data, serveVars>>

\* generic_visit of a node that is neither a FunctionDef nor a Call
VisitOtherNode ==
    /\ fpc = "visiting"
    /\ pos <= Len(source.tokens)
    /\ source.tokens[pos].op \notin {"def", "end", "call"}
    /\ pos' = pos + 1
    /\ UNCHANGED <<fpc, source, analyzer, analysis_results, file_result>>
    /\ UNCHANGED <<dirVars, call_graph_data, serveVars>>

\* EnhancedCodeAnalyzer(source, filepath).get_analysis_results()
RunEnhanced ==
    /\ fpc = "visiting"
    /\ pos > Len(source.tokens)
    /\ IF source.status = "provider_error"
       THEN fpc' = "raised" /\ UNCHANGED analysis_results
       ELSE fpc' = "analysed" /\ analysis_results' = get_analysis_results(source)
    /\ UNCHANGED <<source, pos, analyzer, file_result>>
    /\ UNCHANGED <<dirVars, call_graph_data, serveVars>>

\* the result loop and the return
ReturnFileResult ==
    /\ fpc = "analysed"
    /\ file_result' = Returned(BuildResult(analyzer, analysis_results))
    /\ fpc' = "returned"
    /\ UNCHANGED <<source, pos, analyzer, analysis_results>>
    /\ UNCHANGED <<dirVars, call_graph_data, serveVars>>

FileNext ==
    \/ ReadAndParse
    \/ VisitFunctionDefEnter
    \/ VisitFunctionDefLeave
    \/ VisitCallNode
    \/ VisitOtherNode
    \/ RunEnhanced
    \/ ReturnFileResult

SpecFile == FileInit /\ [][FileNext]_vars

-----------------------------------------------------------------------------
(* The published graph and the request handlers *)

\* what analyze_directory of main.py returns for a project of one file c.py
GraphOfFile(tokens) ==
    FilterGraph(MergeFile("main", << >>,
                          analyze_file(FileOf(tokens, << >>)),
                          <<"c.py">>))

\* the graphs update_call_graph_data is called with
PublishedGraphs ==
    {GraphOfFile(<<DefTok("helper", 1, 1, 0), EndTok,
                   DefTok("main", 3, 4, 0), At(CallTok("name", "helper"), 4), EndTok>>),
     GraphOfFile(OneDecl("helper", <<"print">>))}

\* the order in which a published dict lists its keys
KeyOrder(d) == SelectSeq(<<"helper", "main", "print">>, LAMBDA n : n \in DOMAIN d)

\* the function names and the queries requests carry
RequestNames == {"", "helper", "main"}

\* the old and the new graph at this moment: both are the published graph
\* when no update is in progress
ReadOf(d) ==
    [seen |-> d,
     old |-> IF upc = "idle" THEN call_graph_data ELSE old_data,
     new |-> IF upc = "idle" THEN call_graph_data ELSE new_data]

\* update_call_graph_data(data) is called and runs call_graph_data.clear()
PublishClear ==
    /\ upc = "idle"
    /\ \E data \in PublishedGraphs : new_data' = data
    /\ old_data' = call_graph_data
    /\ call_graph_data' = DictClear(call_graph_data)
    /\ upc' = "update"
    /\ UNCHANGED <<rpc, rarg, riter, rresults, response, lastread>>
    /\ UNCHANGED <<dirVars, fileVars>>

\* call_graph_data.update(data), and the return
PublishUpdate ==
    /\ upc = "update"
    /\ call_graph_data' = DictUpdate(call_graph_data, new_data)
    /\ upc' = "idle"
    /\ new_data' = << >>
    /\ old_data' = << >>
    /\ UNCHANGED <<rpc, rarg, riter, rresults, response, lastread>>
    /\ UNCHANGED <<dirVars, fileVars>>

\* GET /data: jsonify(call_graph_data)
Data ==
    /\ rpc = "idle"
    /\ response' = [route |-> "data", status |-> 200, body |-> call_graph_data]
    /\ lastread' = ReadOf(call_graph_data)
    /\ UNCHANGED <<upc, new_data, old_data, rpc, rarg, riter, rresults>>
    /\ UNCHANGED <<dirVars, fileVars, call_graph_data>>

\* POST /analysis up to the membership test
GetAnalysisCheck ==
    /\ rpc = "idle"
    /\ \E function_name \in RequestNames :
          /\ rarg' = function_name
          /\ IF function_name = "" \/ function_name \notin DOMAIN call_graph_data
             THEN /\ response' = [route |-> "analysis", status |-> 404,
                                  body |-> "Function not found"]
                  /\ rpc' = "idle"
             ELSE /\ rpc' = "analysis_lookup"
                  /\ UNCHANGED response
          /\ lastread' = IF function_name = "" THEN lastread ELSE ReadOf(call_graph_data)
    /\ UNCHANGED <<upc, new_data, old_data, riter, rresults>>
    /\ UNCHANGED <<dirVars, fileVars, call_graph_data>>

\* POST /analysis: function_data = call_graph_data[function_name] and the answer
GetAnalysisLookup ==
    /\ rpc = "analysis_lookup"
    /\ IF rarg \in DOMAIN call_graph_data
       THEN response' = [route |-> "analysis", status |-> 200,
                         body |-> [complexity |-> call_graph_data[rarg].complexity,
                                   code_smells |-> call_graph_data[rarg].code_smells,
                                   security_issues |-> call_graph_data[rarg].security_issues,
                                   documentation |-> call_graph_data[rarg].documentation]]
       ELSE response' = [route |-> "analysis", status |-> 500, body |-> "KeyError"]
    /\ lastread' = ReadOf(call_graph_data)
    /\ rpc' = "idle"
    /\ UNCHANGED <<upc, new_data, old_data, rarg, riter, rresults>>
    /\ UNCHANGED <<dirVars, fileVars, call_graph_data>>

\* POST /search up to the creation of the iterator of call_graph_data.items()
SearchBegin ==
    /\ rpc = "idle"
    /\ \E query \in RequestNames : rarg' = query
    /\ riter' = [used |-> Cardinality(DOMAIN call_graph_data), idx |-> 0]
    /\ rresults' = << >>
    /\ rpc' = "search"
    /\ lastread' = ReadOf(call_graph_data)
    /\ UNCHANGED <<upc, new_data, old_data, response>>
    /\ UNCHANGED <<dirVars, fileVars, call_graph_data>>

\* query in func_name.lower() or query in func_data.get('code', '').lower():
\* the names are atoms, so a query is in a name when it is empty or the
\* name, and in a code when it is empty or a name the code mentions
QueryInNameOrCode(query, func_name, func_data) ==
    \/ query = ""
    \/ query = func_name
    \/ \E k \in 1..Len(func_data.code) : func_data.code[k].name = query

\* one step of the loop of search_functions, or the response after it
SearchStep ==
    /\ rpc = "search"
    /\ IF Cardinality(DOMAIN call_graph_data) # riter.used
       THEN \* RuntimeError: dictionary changed size during iteration
            /\ response' = [route |-> "search", status |-> 500, body |-> "RuntimeError"]
            /\ rpc' = "idle"
            /\ UNCHANGED <<riter, rresults>>
       ELSE IF riter.idx >= riter.used
       THEN /\ response' = [route |-> "search", status |-> 200, body |-> rresults]
            /\ rpc' = "idle"
            /\ UNCHANGED <<riter, rresults>>
       ELSE LET func_name == KeyOrder(call_graph_data)[riter.idx + 1]
                func_data == call_graph_data[func_name]
            IN IF QueryInNameOrCode(rarg, func_name, func_data)
               THEN /\ rresults' = (func_name :> func_data) @@ rresults
                    /\ riter' = [riter EXCEPT !.idx = @ + 1]
                    /\ UNCHANGED <<rpc, response>>
               ELSE IF func_data.documentation.docstring = NoneValue
               THEN \* AttributeError: None has no lower()
                    /\ response' = [route |-> "search", status |-> 500,
                                    body |-> "AttributeError"]
                    /\ rpc' = "idle"
                    /\ UNCHANGED <<riter, rresults>>
               ELSE /\ riter' = [riter EXCEPT !.idx = @ + 1]
                    /\ UNCHANGED <<rpc, response, rresults>>
    /\ lastread' = ReadOf(call_graph_data)
    /\ UNCHANGED <<upc, new_data, old_data, rarg>>
    /\ UNCHANGED <<dirVars, fileVars, call_graph_data>>

PublishInit ==
    /\ DirIdle
    /\ FileIdle
    /\ ServeIdle
    /\ call_graph_data = << >>

PublishNext ==
    \/ PublishClear
    \/ PublishUpdate
    \/ Data
    \/ GetAnalysisCheck
    \/ GetAnalysisLookup
    \/ SearchBegin
    \/ SearchStep

SpecPublish == PublishInit /\ [][PublishNext]_vars

-----------------------------------------------------------------------------
(* What the run was given, for stating the properties *)

\* the opened files that were read and parsed
OkOpened == {i \in 1..Len(opened) : opened[i].content.status = "ok"}

\* the opened files that declare the name n
Declaring(n) == {i \in OkOpened : n \in DeclaredNames(opened[i].content.tokens)}

\* the file processed last among those that declare n
LastDeclaring(n) == Max(Declaring(n))

AllDeclared == UNION {DeclaredNames(opened[i].content.tokens) : i \in OkOpened}

\* the per-file record of n from the i-th opened file
RawRecord(i, n) == analyze_file(opened[i].content)[n]

RECURSIVE Interleave(_, _)
\* the components with the separator atom between them
Interleave(segs, sepAtom) ==
    IF Len(segs) <= 1 THEN segs
    ELSE <<Head(segs), sepAtom>> \o Interleave(Tail(segs), sepAtom)

\* the record the i-th opened file gives for n, with its provenance
ProvenanceRecord(i, n) ==
    [file |-> Interleave(opened[i].segs, "/"),
     breadcrumbs |-> Interleave(opened[i].segs, " > ")] @@ RawRecord(i, n)

-----------------------------------------------------------------------------
(* C1 *)

\* C1 (resolution closure): in the graph analyze_directory returns, every
\* name in the calls of every function is a key of the graph and is not the
\* name of a callable built-in.
C1_ResolutionClosure ==
    result.returned =>
        \A f \in DOMAIN result.graph :
            \A call \in Range(result.graph[f].calls) :
                call \in DOMAIN result.graph /\ call \notin built_in_names

\* a returned graph that declares a built-in's name, where a raw call of that
\* name and a call of an undeclared name were dropped and a call was kept
C1_Witness ==
    /\ result.returned
    /\ "print" \in DOMAIN result.graph
    /\ \E f \in DOMAIN result.graph : result.graph[f].calls # << >>
    /\ \E f \in DOMAIN result.graph :
          "print" \in Range(RawRecord(LastDeclaring(f), f).calls)
    /\ \E f \in DOMAIN result.graph :
          Range(RawRecord(LastDeclaring(f), f).calls) \ AllDeclared # {}

-----------------------------------------------------------------------------
(* C2 *)

\* C2 (two-pass ordering): in the returned graph, the record of g (made from
\* the declaration that stays for g) keeps every raw call to a name h that
\* some analysed file declares and that is no built-in, whether h's file was
\* walked before or after g's; and h's record has the root-relative path of
\* the file that declares h as its file.
C2_TwoPassOrdering ==
    result.returned =>
        \A g \in DOMAIN result.graph :
            \A h \in Range(RawRecord(LastDeclaring(g), g).calls) :
                (h \in AllDeclared /\ h \notin built_in_names) =>
                    /\ h \in Range(result.graph[g].calls)
                    /\ h \in DOMAIN result.graph
                    /\ result.graph[h].file = Interleave(opened[LastDeclaring(h)].segs, "/")

\* g calls h, and the only file declaring h was walked after g's file
C2_Witness ==
    /\ result.returned
    /\ \E g, h \in DOMAIN result.graph :
          /\ h \in Range(result.graph[g].calls)
          /\ \A i \in Declaring(h) : i > LastDeclaring(g)

\* g calls h, and h's file was walked before g's file
C2_WitnessBefore ==
    /\ result.returned
    /\ \E g, h \in DOMAIN result.graph :
          /\ h \in Range(result.graph[g].calls)
          /\ \A i \in Declaring(h) : i < LastDeclaring(g)

-----------------------------------------------------------------------------
(* C3 *)

\* C3 (collision across files): the record kept under a name is in every
\* field the record of the file processed last among those declaring the
\* name: when the walk is over and the filtering pass has not run, the whole
\* record, calls included; in the returned graph every field but calls, and
\* calls is what filtering leaves of that file's raw calls.
C3_LastFileWins ==
    /\ pc = "Filtering" =>
          /\ DOMAIN complete_graph = AllDeclared
          /\ \A n \in DOMAIN complete_graph :
                complete_graph[n] = ProvenanceRecord(LastDeclaring(n), n)
    /\ result.returned =>
          /\ DOMAIN result.graph = AllDeclared
          /\ \A n \in DOMAIN result.graph :
                LET last == ProvenanceRecord(LastDeclaring(n), n) IN
                /\ [result.graph[n] EXCEPT !.calls = last.calls] = last
                /\ Range(result.graph[n].calls) \subseteq Range(last.calls)

\* two files declared the same name with records that differ in code, calls,
\* complexity, security_issues and documentation, and the run returned
C3_Witness ==
    /\ result.returned
    /\ \E n \in DOMAIN result.graph :
          \E i \in Declaring(n) :
              /\ i < LastDeclaring(n)
              /\ \A fld \in {"code", "calls", "complexity", "security_issues",
                            "documentation"} :
                    RawRecord(i, n)[fld] # RawRecord(LastDeclaring(n), n)[fld]

-----------------------------------------------------------------------------
(* C6 *)

\* C6 (per-file failure isolation): a file whose analysis fails does not
\* abort analyze_directory: the run goes on, and the returned graph holds
\* the declarations of every other file.
C6_FailureIsolated ==
    /\ pc # "Raised"
    /\ result.returned => DOMAIN result.graph = AllDeclared

\* a run in which an opened file could not be analysed
C6_FailedFile == \E i \in 1..Len(opened) : opened[i].content.status # "ok"

-----------------------------------------------------------------------------
(* C7 *)

\* C7 (bad root is fatal): when the root does not exist or is not a
\* directory, no graph, not even an empty one, is returned or published.
C7_BadRootFatal ==
    rootKind # "dir" => (~result.returned /\ pc \notin {"Updating", "Published"})

-----------------------------------------------------------------------------
(* C8 *)

\* C8 (breadcrumbs): for every record of the returned graph, breadcrumbs is
\* the components of the declaring file's root-relative path joined by " > ",
\* file is the same components joined by os.sep, and both split back to the
\* same components.
C8_Breadcrumbs ==
    result.returned =>
        \A n \in DOMAIN result.graph :
            LET segs == opened[LastDeclaring(n)].segs IN
            /\ result.graph[n].breadcrumbs = Interleave(segs, " > ")
            /\ result.graph[n].file = Interleave(segs, Sep)
            /\ StrSplit(result.graph[n].breadcrumbs, " > ")
                   = StrSplit(result.graph[n].file, Sep)

\* a record of a file two directories below the root: a/b/c.py
C8_Witness ==
    /\ result.returned
    /\ \E n \in DOMAIN result.graph :
          /\ result.graph[n].file = <<"a", "/", "b", "/", "c.py">>
          /\ result.graph[n].breadcrumbs = <<"a", " > ", "b", " > ", "c.py">>

-----------------------------------------------------------------------------
(* C4 *)

\* the declaration in which the call at token j is written: the innermost
\* FunctionDef around it (0 when there is none)
EnclosingDef(toks, j) ==
    LET around == {d \in 1..(j - 1) : toks[d].op = "def" /\ MatchEnd(toks, d) > j}
    IN IF around = {} THEN 0 ELSE Max(around)

\* the call targets written in the declaration at token i, in the order the
\* visitor reaches them
CallsWrittenIn(toks, i) ==
    LET at == SelectSeq([j \in 1..Len(toks) |-> j],
                        LAMBDA j : toks[j].op = "call" /\ EnclosingDef(toks, j) = i)
    IN [k \in 1..Len(at) |-> CallTargetName(toks[at[k]])]

\* C4 (collision within one file): when a file declares a name more than
\* once, the per-file record of the name has the code of the later
\* declaration and only the calls written in the later declaration.
C4_LaterDeclarationOverwrites ==
    file_result.returned =>
        \A n \in DOMAIN file_result.graph :
            Cardinality(DefIndices(source.tokens, n)) >= 2 =>
                LET later == Max(DefIndices(source.tokens, n)) IN
                /\ file_result.graph[n].code = GetSourceSegment(source.tokens, later)
                /\ file_result.graph[n].calls = CallsWrittenIn(source.tokens, later)

-----------------------------------------------------------------------------
(* C9 *)

HasSmell(record, type) == \E k \in 1..Len(record.code_smells) : record.code_smells[k].type = type

\* C9 (smell thresholds): the record of a function declared once has a
\* long_method finding exactly when the declaration spans more than 20
\* lines, and a too_many_parameters finding exactly when it declares more
\* than 5 parameters.
C9_SmellThresholds ==
    file_result.returned =>
        \A n \in DOMAIN file_result.graph :
            Cardinality(DefIndices(source.tokens, n)) = 1 =>
                LET node == source.tokens[Max(DefIndices(source.tokens, n))] IN
                /\ HasSmell(file_result.graph[n], "long_method")
                      <=> (node.end_lineno - node.lineno + 1 > 20)
                /\ HasSmell(file_result.graph[n], "too_many_parameters")
                      <=> (node.nargs > 5)

-----------------------------------------------------------------------------
(* C10 *)

IsLoop(tok) == tok.op \in {"for", "while"}

\* the nested_loop findings addressed at a line
NestedLoopFindingsAt(line) ==
    Cardinality({k \in 1..Len(analysis_results.performance_analysis) :
                    /\ analysis_results.performance_analysis[k].type = "nested_loop"
                    /\ analysis_results.performance_analysis[k].line = line})

\* C10 (nested-loop finding count): analyze_performance gives one
\* nested_loop finding, at the loop's line, for every loop whose body holds
\* another loop, and none for a loop that holds no other loop.
C10_OneFindingPerOuterLoop ==
    fpc \in {"analysed", "returned"} =>
        \A i \in 1..Len(source.tokens) :
            IsLoop(source.tokens[i]) =>
                NestedLoopFindingsAt(source.tokens[i].lineno)
                    = IF \E j \in (i + 1)..MatchEnd(source.tokens, i) : IsLoop(source.tokens[j])
                      THEN 1 ELSE 0

-----------------------------------------------------------------------------
(* C5 *)

\* C5 (atomic publication): whatever a request handler reads of
\* call_graph_data while update_call_graph_data replaces the graph old by
\* the graph new is exactly old or exactly new.
C5_AtomicPublication == lastread.seen \in {lastread.old, lastread.new}

-----------------------------------------------------------------------------
(* C11 *)

\* the lines of the analysed file, line k at index k
SourceLines == StrSplit(source.text, Newline)

\* the pairs (i, j), i < j, of non-blank lines with identical trimmed text
TrimmedPairs ==
    {p \in (1..Len(SourceLines)) \X (1..Len(SourceLines)) :
        /\ p[1] < p[2]
        /\ Strip(SourceLines[p[1]]) # << >>
        /\ Strip(SourceLines[p[1]]) = Strip(SourceLines[p[2]])}

\* the text of the duplication scenario: x = 1, y = 2, x = 1
ScenarioText == <<"x = 1", Newline, "y = 2", Newline, "x = 1">>

\* C11 (duplication pairs): find_code_duplication reports exactly the pairs
\* (i, j), i < j, of 1-based line numbers whose lines are non-blank and have
\* identical trimmed text, each pair once with line1 = i and line2 = j; for
\* the lines x = 1, y = 2, x = 1 the result is the one finding
\* {line1: 1, line2: 3, code: "x = 1"}.
C11_DuplicationPairs ==
    fpc \in {"analysed", "returned"} =>
        LET found == analysis_results.code_duplication IN
        /\ {<<found[k].line1, found[k].line2>> : k \in 1..Len(found)} = TrimmedPairs
        /\ \A k, m \in 1..Len(found) :
               k # m => <<found[k].line1, found[k].line2>> # <<found[m].line1, found[m].line2>>
        /\ source.text = ScenarioText =>
               found = <<[line1 |-> 1, line2 |-> 3, code |-> <<"x = 1">>]>>

-----------------------------------------------------------------------------
(* C12 *)

\* a function declaration: def or async def
IsDeclaration(tok) == tok.op \in {"def", "asyncdef"}

\* the innermost function declaration around token j (0 when there is none)
InnermostDeclaration(toks, j) ==
    LET around == {d \in 1..(j - 1) : IsDeclaration(toks[d]) /\ MatchEnd(toks, d) > j}
    IN IF around = {} THEN 0 ELSE Max(around)

RECURSIVE InSourceOrder(_, _)
\* the tokens S by their place in the text: by line, and on one line in the
\* order the visitor reaches them
InSourceOrder(toks, S) ==
    IF S = {} THEN << >>
    ELSE LET first == CHOOSE i \in S : \A j \in S :
                         \/ toks[i].lineno < toks[j].lineno
                         \/ toks[i].lineno = toks[j].lineno /\ i <= j
         IN <<first>> \o InSourceOrder(toks, S \ {first})

\* the targets of the calls whose innermost declaration is a declaration of
\* n, in source order
CallsAttributedTo(toks, n) ==
    LET at == InSourceOrder(toks,
                  {j \in 1..Len(toks) :
                      /\ toks[j].op = "call"
                      /\ InnermostDeclaration(toks, j) # 0
                      /\ toks[InnermostDeclaration(toks, j)].name = n})
    IN [k \in 1..Len(at) |-> CallTargetName(toks[at[k]])]

\* C12 (call attribution by context): when the walk of a file is over, the
\* call list of every declared function holds, in source order, exactly the
\* calls whose innermost enclosing function declaration it is: a call in a
\* nested declaration is in the nested function's list and not in the outer
\* one's, a call behind a nested declaration is in the outer function's
\* list, and a call outside every function is in no list.
C12_CallAttribution ==
    (fpc \in {"analysed", "returned"}
     \/ (fpc = "visiting" /\ pos > Len(source.tokens))) =>
        /\ \A j \in 1..Len(source.tokens) :
               IsDeclaration(source.tokens[j]) =>
                   source.tokens[j].name \in DOMAIN analyzer.call_graph
        /\ \A n \in DOMAIN analyzer.call_graph :
               analyzer.call_graph[n] = CallsAttributedTo(source.tokens, n)

=============================================================================
